---------------------------- MODULE Spec2Model ----------------------------
(***************************************************************************)
(* Model of the OpenAI-compatible chat-completions service:                *)
(*   app/features/chat/models.py   ChatMessage.text_content                *)
(*   app/shared/openai_adapter.py  openai_messages_to_pydantic,            *)
(*                                 build_chat_response                     *)
(*   app/features/chat/routes.py   verify_api_key, chat_completions        *)
(*   app/core/config.py            Settings, get_settings                  *)
(*                                                                         *)
(* Text is a sequence of characters, so that concatenation is computed.    *)
(* An optional value (Python's  X | None) is a record [isNone, v].         *)
(***************************************************************************)
EXTENDS Integers, Sequences, FiniteSets, TLC

VARIABLES
    messages,       \* adapter harness: the caller's list handed to the adapter
    callState,      \* adapter harness: "ready" | "returned" | "raised"
    ret,            \* adapter harness: the locals of the call when it ended
    retAgain,       \* adapter harness: <<>> or <<the same of a second call>>
    textMsg,        \* text harness: the message whose text_content is read
    textRet,        \* text harness: <<>> or <<the value of the property>>
    handlerPc,      \* handler harness: raised, logged, responded
    raisedExc,      \* handler harness: the exception and the request it hit
    handlerLog,     \* handler harness: entries written by logger.error
    handlerResp,    \* handler harness: <<>> or <<the JSONResponse>>
    env,            \* the process environment the settings are read from
    settingsCache,  \* lru_cache of get_settings: <<>> or <<Settings>>
    settingsLoads,  \* how many times Settings() was constructed
    settingsSeen,   \* per caller: identity of each instance get_settings gave it
                    \* since the cache was last cleared
    pc,             \* per request: idle, received, authenticated, awaiting, done
    request,        \* per request: Authorization header and parsed body
    adapterCalls,   \* per request: calls of openai_messages_to_pydantic
    agentCalls,     \* per request: the invocations of vault_agent.iter
    outcome,        \* per request: how the agent run ended
    builderCalls,   \* per request: calls of build_chat_response
    errorLog,       \* per request: error entries logged by the handler
    response        \* per request: the HTTP response sent

adapterVars == <<messages, callState, ret, retAgain>>

textVars == <<textMsg, textRet>>

handlerVars == <<handlerPc, raisedExc, handlerLog, handlerResp>>

harnessVars == <<adapterVars, textVars, handlerVars>>

settingsVars == <<env, settingsCache, settingsLoads, settingsSeen>>

requestVars ==
    <<pc, request, adapterCalls, agentCalls, outcome, builderCalls, errorLog,
      response>>

vars == <<harnessVars, settingsVars, requestVars>>

-----------------------------------------------------------------------------
(* Optional values *)

None == [isNone |-> TRUE, v |-> <<>>]

Some(x) == [isNone |-> FALSE, v |-> x]

NoneInt == [isNone |-> TRUE, v |-> 0]

-----------------------------------------------------------------------------
(* Bounds of the model *)

\* longest message list handed to the adapter
MaxLen == 4

\* longest list of content parts handed to text_content
MaxParts == 3

\* longest message list in the body of a single request
MaxReqLen == 2

\* number of requests in flight together
NumReqs == 2

-----------------------------------------------------------------------------
(* app/features/chat/models.py *)

Roles == {"system", "user", "assistant"}

\* ContentPart(type, text): image_url payloads carry no text and are left out
ContentPart(type, text) == [type |-> type, text |-> text]

\* content: str | list[ContentPart]
StrContent(s) == [isStr |-> TRUE, str |-> s, parts |-> <<>>]

ListContent(ps) == [isStr |-> FALSE, str |-> <<>>, parts |-> ps]

ChatMessage(role, content) == [role |-> role, content |-> content]

\* Python truthiness of  part.text  (str | None): None and "" are falsy
Truthy(text) == ~text.isNone /\ text.v # <<>>

RECURSIVE JoinTextAnyType(_)
\* mutant: the type of a part is not looked at
JoinTextAnyType(parts) ==
    IF parts = <<>> THEN <<>>
    ELSE LET part == Head(parts)
         IN  IF Truthy(part.text)
             THEN part.text.v \o JoinTextAnyType(Tail(parts))
             ELSE JoinTextAnyType(Tail(parts))

RECURSIVE JoinText(_)
\* "".join(part.text for part in parts if part.type == "text" and part.text)
JoinText(parts) ==
    IF parts = <<>> THEN <<>>
    ELSE LET part == Head(parts)
         IN  IF part.type = "text" /\ Truthy(part.text)
             THEN part.text.v \o JoinText(Tail(parts))
             ELSE JoinText(Tail(parts))

\* ChatMessage.text_content
text_content(msg) ==
    IF msg.content.isStr THEN msg.content.str
    ELSE JoinText(msg.content.parts)

-----------------------------------------------------------------------------
(* pydantic_ai.messages records built by the adapter *)

ModelRequest(content) ==
    [kind |-> "request", part_kind |-> "user-prompt", content |-> content]

ModelResponse(content) ==
    [kind |-> "response", part_kind |-> "text", content |-> content]

-----------------------------------------------------------------------------
(* app/shared/openai_adapter.py : openai_messages_to_pydantic *)

ErrEmpty == "Messages array must not be empty."

ErrNoUser == "Messages must contain at least one user message."

\* The locals before the scan.  prior_messages holds references to the
\* caller's message objects: a reference is the object's position in messages.
ScanInit == [user_prompt |-> None, system_skipped |-> 0, prior_messages |-> <<>>]

\* mutant: every user message overwrites the prompt (the first one wins)
ScanStepFirstUser(st, msgs, i) ==
    IF msgs[i].role = "user"
    THEN [st EXCEPT !.user_prompt = Some(text_content(msgs[i]))]
    ELSE IF msgs[i].role = "system"
    THEN [st EXCEPT !.system_skipped = @ + 1]
    ELSE [st EXCEPT !.prior_messages = Append(@, i)]

\* mutant: the prompt is tested for truth, so an empty text counts as unset
ScanStepFalsyPrompt(st, msgs, i) ==
    IF msgs[i].role = "user" /\ (st.user_prompt.isNone \/ st.user_prompt.v = <<>>)
    THEN [st EXCEPT !.user_prompt = Some(text_content(msgs[i]))]
    ELSE IF msgs[i].role = "system"
    THEN [st EXCEPT !.system_skipped = @ + 1]
    ELSE [st EXCEPT !.prior_messages = Append(@, i)]

\* one iteration of  for msg in reversed(messages)
ScanStep(st, msgs, i) ==
    IF msgs[i].role = "user" /\ st.user_prompt.isNone
    THEN [st EXCEPT !.user_prompt = Some(text_content(msgs[i]))]
    ELSE IF msgs[i].role = "system"
    THEN [st EXCEPT !.system_skipped = @ + 1]
    ELSE [st EXCEPT !.prior_messages = Append(@, i)]

RECURSIVE ScanFrom(_, _, _)
\* the loop over reversed(messages), from position i down to 1
ScanFrom(st, msgs, i) ==
    IF i = 0 THEN st
    ELSE ScanFrom(ScanStep(st, msgs, i), msgs, i - 1)

\* list.reverse()
Reverse(s) == [k \in 1..Len(s) |-> s[Len(s) + 1 - k]]

\* mutant: the retained messages are not reversed back
PriorAfterScanNotReversed(st) == st.prior_messages

\* prior_messages.reverse()
PriorAfterScan(st) == Reverse(st.prior_messages)

RECURSIVE BuildHistory(_, _)
\* for msg in prior_messages: append ModelRequest / ModelResponse
BuildHistory(msgs, prior) ==
    IF prior = <<>> THEN <<>>
    ELSE LET msg  == msgs[Head(prior)]
             rest == BuildHistory(msgs, Tail(prior))
         IN  IF msg.role = "user"
             THEN <<ModelRequest(text_content(msg))>> \o rest
             ELSE IF msg.role = "assistant"
             THEN <<ModelResponse(text_content(msg))>> \o rest
             ELSE rest

Raised(error) ==
    [raised |-> TRUE, error |-> error, user_prompt |-> <<>>,
     prior_messages |-> <<>>, history |-> <<>>]

\* if not messages
EmptyGuard(msgs) == msgs = <<>>

\* mutant: a missing user message yields an empty prompt instead of an error
NoUserGuardMissing(st) == FALSE

\* if user_prompt is None
NoUserGuard(st) == st.user_prompt.isNone

\* mutant: the list is walked backwards by reversing it in place
MessagesAfterCallReversed(msgs) == Reverse(msgs)

\* the caller's list when the call ends: reversed(messages) walks the list
\* without changing it, and prior_messages.reverse() reverses a local list
MessagesAfterCall(msgs) == msgs

\* The call: what it raises or returns, with the final value of the local
\* prior_messages beside the returned (user_prompt, history).
openai_messages_to_pydantic(msgs) ==
    IF EmptyGuard(msgs) THEN Raised(ErrEmpty)
    ELSE LET st == ScanFrom(ScanInit, msgs, Len(msgs))
         IN  IF NoUserGuard(st) THEN Raised(ErrNoUser)
             ELSE LET prior == PriorAfterScan(st)
                  IN  [raised |-> FALSE, error |-> "",
                       user_prompt |-> st.user_prompt.v,
                       prior_messages |-> prior,
                       history |-> BuildHistory(msgs, prior)]

-----------------------------------------------------------------------------
(* app/shared/openai_adapter.py : build_chat_response *)

IdPrefix == "chatcmpl-"

\* Python's  x or 0  on  int | None
OrZero(x) == IF x.isNone \/ x.v = 0 THEN 0 ELSE x.v

\* mutant: the total is recomputed from the other two counters
UsageRecomputed(request_tokens, response_tokens, total_tokens) ==
    [prompt_tokens     |-> OrZero(request_tokens),
     completion_tokens |-> OrZero(response_tokens),
     total_tokens      |-> OrZero(request_tokens) + OrZero(response_tokens)]

\* Usage(prompt_tokens=..., completion_tokens=..., total_tokens=...)
Usage(request_tokens, response_tokens, total_tokens) ==
    [prompt_tokens     |-> OrZero(request_tokens),
     completion_tokens |-> OrZero(response_tokens),
     total_tokens      |-> OrZero(total_tokens)]

\* Choice(message=ResponseMessage(content=output)) with the models' defaults
Choice(output) ==
    [index |-> 0,
     message |-> [role |-> "assistant", content |-> output],
     finish_reason |-> "stop"]

\* number of hex digits of uuid.uuid4().hex
UuidHexLen == 32

\* number of hex digits kept by  .hex[:29]
IdTokenLen == 29

\* mutant: the literal prefix is left out of the identifier
ResponseIdBare(hex) == [prefix |-> "", token |-> SubSeq(hex, 1, IdTokenLen)]

\* response_id = f"chatcmpl-{uuid.uuid4().hex[:29]}"
ResponseId(hex) == [prefix |-> IdPrefix, token |-> SubSeq(hex, 1, IdTokenLen)]

\* build_chat_response; hex is the value of uuid.uuid4().hex and now the
\* value of int(utcnow().timestamp()) at the call
build_chat_response(output, model, request_tokens, response_tokens, total_tokens, hex, now) ==
    [id      |-> ResponseId(hex),
     object  |-> "chat.completion",
     created |-> now,
     model   |-> model,
     choices |-> << Choice(output) >>,
     usage   |-> Usage(request_tokens, response_tokens, total_tokens)]

-----------------------------------------------------------------------------
(* app/core/config.py *)

\* Settings(): the n-th object constructed in the process, its fields read
\* from the environment; id is the object's identity
Settings(e, n) ==
    [id |-> n, api_key |-> e.api_key, obsidian_vault_path |-> e.obsidian_vault_path]

\* mutant: get_settings without the cache decorator
get_settings_uncached(cache, e, loads) ==
    [settings |-> Settings(e, loads + 1), cache |-> cache, loads |-> 1]

\* @lru_cache get_settings(): the cached instance, or a new one that is cached
get_settings(cache, e, loads) ==
    IF cache # <<>>
    THEN [settings |-> cache[1], cache |-> cache, loads |-> 0]
    ELSE [settings |-> Settings(e, loads + 1),
          cache    |-> <<Settings(e, loads + 1)>>,
          loads    |-> 1]

-----------------------------------------------------------------------------
(* app/features/chat/routes.py *)

HTTPException(status_code, detail) ==
    [status |-> status_code, detail |-> detail, body |-> <<>>]

Ok200(body) == [status |-> 200, detail |-> "", body |-> <<body>>]

NoResponse == [status |-> 0, detail |-> "", body |-> <<>>]

NotAuthenticatedDetail == "Not authenticated"

InvalidKeyDetail == "Invalid API key"

StreamingDetail ==
    "Streaming not yet supported. Set stream to false in Copilot settings or enable CORS bypass."

AgentFailedDetail == "Agent execution failed. Check server logs for details."

NoResultDetail == "Agent returned no result."

\* HTTPBearer(): no Authorization header, the dependency answers 403 itself
BearerMissing(auth) == auth = <<>>

\* str.lower() on the keys of the model
Lower(k) == IF k = "SECRET" THEN "secret" ELSE k

\* mutant: the key is compared without regard to case
KeyMismatchIgnoringCase(credentials, api_key) == Lower(credentials) # Lower(api_key)

\* credentials.credentials != settings.api_key
KeyMismatch(credentials, api_key) == credentials # api_key

\* mutant: the messages are checked first, streaming only once they pass
StreamRequestedAfterAdapter(body) ==
    body.stream /\ ~openai_messages_to_pydantic(body.messages).raised

\* mutant: the streaming check is lost
StreamRequestedNever(body) == FALSE

\* if request.stream
StreamRequested(body) == body.stream

\* mutant: the exception's text is sent to the caller
AgentFailureLeaking(e) == HTTPException(500, e.message)

\* mutant: an agent failure is answered as a bad gateway
AgentFailureBadGateway(e) == HTTPException(502, AgentFailedDetail)

\* except Exception as e: ... raise HTTPException(500, fixed detail)
AgentFailure(e) == HTTPException(500, AgentFailedDetail)

\* if result is None
NullResult(result) == result = <<>>

\* mutant: the model name is taken from a slot shared by all requests
EchoedModelShared(body) == request[1].body.model

\* mutant: the configured model name is answered, not the request's
EchoedModelConfigured(body) == "paddy"

\* model=request.model
EchoedModel(body) == body.model

\* mutant: the adapter's error is replaced by a fixed text
AdapterErrorDetailFixed(error) == "Invalid messages"

\* detail=str(e)
AdapterErrorDetail(error) == error

\* mutant: the request's temperature is forwarded to the agent run
AgentArgsWithTemperature(body, adapted, deps) ==
    [user_prompt     |-> adapted.user_prompt,
     message_history |-> adapted.history,
     deps            |-> deps,
     model_settings  |-> [temperature |-> body.temperature]]

\* vault_agent.iter(user_prompt=..., message_history=..., deps=deps)
AgentArgs(body, adapted, deps) ==
    [user_prompt     |-> adapted.user_prompt,
     message_history |-> adapted.history,
     deps            |-> deps]

Reqs == 1..NumReqs

\* the callers of get_settings: the module-level calls made when the
\* application is imported, and the requests
AtImport == 0

Callers == Reqs \cup {AtImport}

\* A request arrives: its Authorization header (<<>> when missing, else the
\* bearer credential) and its parsed ChatCompletionRequest body.
Receive(r, P) ==
    /\ pc[r] = "idle"
    /\ \E auth \in P.auths, body \in P.bodies :
           request' = [request EXCEPT ![r] = [authorization |-> auth, body |-> body]]
    /\ pc' = [pc EXCEPT ![r] = "received"]
    /\ UNCHANGED <<harnessVars, settingsVars, adapterCalls, agentCalls, outcome,
                   builderCalls, errorLog, response>>

\* security = HTTPBearer() followed by verify_api_key
Authenticate(r) ==
    /\ pc[r] = "received"
    /\ LET auth == request[r].authorization
           got  == get_settings(settingsCache, env, settingsLoads)
       IN  \/ /\ BearerMissing(auth)
              /\ response' = [response EXCEPT
                     ![r] = HTTPException(403, NotAuthenticatedDetail)]
              /\ pc' = [pc EXCEPT ![r] = "done"]
              /\ UNCHANGED settingsVars
           \/ /\ ~BearerMissing(auth)
              /\ KeyMismatch(auth[1], got.settings.api_key)
              /\ response' = [response EXCEPT
                     ![r] = HTTPException(401, InvalidKeyDetail)]
              /\ pc' = [pc EXCEPT ![r] = "done"]
              /\ settingsCache' = got.cache
              /\ settingsLoads' = settingsLoads + got.loads
              /\ settingsSeen' = [settingsSeen EXCEPT ![r] = Append(@, got.settings.id)]
              /\ UNCHANGED env
           \/ /\ ~BearerMissing(auth)
              /\ ~KeyMismatch(auth[1], got.settings.api_key)
              /\ pc' = [pc EXCEPT ![r] = "authenticated"]
              /\ settingsCache' = got.cache
              /\ settingsLoads' = settingsLoads + got.loads
              /\ settingsSeen' = [settingsSeen EXCEPT ![r] = Append(@, got.settings.id)]
              /\ UNCHANGED <<env, response>>
    /\ UNCHANGED <<harnessVars, request, adapterCalls, agentCalls, outcome,
                   builderCalls, errorLog>>

\* chat_completions up to its await of the agent run
ChatCompletions(r) ==
    /\ pc[r] = "authenticated"
    /\ LET body    == request[r].body
           adapted == openai_messages_to_pydantic(body.messages)
           got     == get_settings(settingsCache, env, settingsLoads)
           deps    == [vault_path |-> got.settings.obsidian_vault_path]
       IN  \/ /\ StreamRequested(body)
              /\ response' = [response EXCEPT
                     ![r] = HTTPException(400, StreamingDetail)]
              /\ pc' = [pc EXCEPT ![r] = "done"]
              /\ UNCHANGED <<settingsVars, adapterCalls, agentCalls>>
           \/ /\ ~StreamRequested(body)
              /\ adapted.raised
              /\ adapterCalls' = [adapterCalls EXCEPT ![r] = @ + 1]
              /\ response' = [response EXCEPT
                     ![r] = HTTPException(400, AdapterErrorDetail(adapted.error))]
              /\ pc' = [pc EXCEPT ![r] = "done"]
              /\ UNCHANGED <<settingsVars, agentCalls>>
           \/ /\ ~StreamRequested(body)
              /\ ~adapted.raised
              /\ adapterCalls' = [adapterCalls EXCEPT ![r] = @ + 1]
              /\ settingsCache' = got.cache
              /\ settingsLoads' = settingsLoads + got.loads
              /\ settingsSeen' = [settingsSeen EXCEPT ![r] = Append(@, got.settings.id)]
              /\ agentCalls' = [agentCalls EXCEPT ![r] = Append(@,
                     AgentArgs(body, adapted, deps))]
              /\ pc' = [pc EXCEPT ![r] = "awaiting"]
              /\ UNCHANGED <<env, response>>
    /\ UNCHANGED <<harnessVars, request, outcome, builderCalls, errorLog>>

\* mutant: the wait for the agent is given up after a timeout
AgentRaisesOrTimesOut(r, P) ==
    /\ pc[r] = "awaiting"
    /\ response' = [response EXCEPT ![r] = HTTPException(500, AgentFailedDetail)]
    /\ pc' = [pc EXCEPT ![r] = "done"]
    /\ UNCHANGED <<harnessVars, settingsVars, request, adapterCalls, agentCalls,
                   outcome, builderCalls, errorLog>>

\* mutant: after an exception the agent is invoked again with the same arguments
AgentRaisesRetrying(r, P) ==
    /\ pc[r] = "awaiting"
    /\ \E e \in P.exceptions :
           outcome' = [outcome EXCEPT
               ![r] = [kind |-> "raised", exc |-> <<e>>, result |-> <<>>]]
    /\ agentCalls' = [agentCalls EXCEPT ![r] = Append(@, @[1])]
    /\ UNCHANGED <<harnessVars, settingsVars, pc, request, adapterCalls, builderCalls,
                   errorLog, response>>

\* the agent run raises inside the try block: the except branch
AgentRaises(r, P) ==
    /\ pc[r] = "awaiting"
    /\ \E e \in P.exceptions :
           /\ outcome' = [outcome EXCEPT
                  ![r] = [kind |-> "raised", exc |-> <<e>>, result |-> <<>>]]
           /\ errorLog' = [errorLog EXCEPT ![r] = Append(@,
                  [event |-> "chat.completions.request_failed", error |-> e.message])]
           /\ response' = [response EXCEPT ![r] = AgentFailure(e)]
    /\ pc' = [pc EXCEPT ![r] = "done"]
    /\ UNCHANGED <<harnessVars, settingsVars, request, adapterCalls, agentCalls,
                   builderCalls>>

\* the agent run ends and agent_run.result is read: a null result, or a
\* result whose data and usage are handed to build_chat_response
AgentReturns(r, P) ==
    /\ pc[r] = "awaiting"
    /\ \E result \in P.results :
           \/ /\ NullResult(result)
              /\ outcome' = [outcome EXCEPT
                     ![r] = [kind |-> "null", exc |-> <<>>, result |-> <<>>]]
              /\ response' = [response EXCEPT
                     ![r] = HTTPException(500, NoResultDetail)]
              /\ UNCHANGED builderCalls
           \/ /\ ~NullResult(result)
              /\ outcome' = [outcome EXCEPT
                     ![r] = [kind |-> "result", exc |-> <<>>, result |-> result]]
              /\ builderCalls' = [builderCalls EXCEPT ![r] = @ + 1]
              /\ \E hex \in P.uuids, now \in P.times :
                     response' = [response EXCEPT ![r] = Ok200(
                         build_chat_response(
                             result[1].data,
                             EchoedModel(request[r].body),
                             result[1].usage.request_tokens,
                             result[1].usage.response_tokens,
                             result[1].usage.total_tokens,
                             hex, now))]
    /\ pc' = [pc EXCEPT ![r] = "done"]
    /\ UNCHANGED <<harnessVars, settingsVars, request, adapterCalls, agentCalls,
                   errorLog>>

-----------------------------------------------------------------------------
(* Adapter harness: one call of the adapter on a bounded input *)

\* message contents the harness draws from: both shapes, text and non-text
\* parts, a part without text, empty and non-empty normalized text
Contents ==
    { StrContent(<<"a">>),
      StrContent(<<>>),
      ListContent(<< ContentPart("text", Some(<<"a">>)),
                     ContentPart("image_url", None),
                     ContentPart("text", Some(<<"b">>)) >>),
      ListContent(<< ContentPart("image_url", Some(<<"b">>)),
                     ContentPart("text", None) >>) }

Messages == { ChatMessage(r, c) : r \in Roles, c \in Contents }

SeqsUpTo(S, n) == UNION { [1..k -> S] : k \in 0..n }

NoRet == Raised("")

NoOutcome == [kind |-> "none", exc |-> <<>>, result |-> <<>>]

NoRequest ==
    [authorization |-> <<>>,
     body |-> [model |-> "", messages |-> <<>>, stream |-> FALSE,
               temperature |-> NoneInt, max_tokens |-> NoneInt,
               top_p |-> NoneInt, frequency_penalty |-> NoneInt]]

\* the application after import: core/agent.py and main.py have called
\* get_settings(), so the cache holds the instance built from the environment
SettingsLoaded(e) ==
    /\ env = e
    /\ settingsCache = <<Settings(e, 1)>>
    /\ settingsLoads = 1
    /\ settingsSeen = [c \in Callers |-> IF c = AtImport THEN <<1, 1>> ELSE <<>>]

\* the application after get_settings.cache_clear(): the cache is empty and
\* the next call constructs the settings again
SettingsCleared(e) ==
    /\ env = e
    /\ settingsCache = <<>>
    /\ settingsLoads = 0
    /\ settingsSeen = [c \in Callers |-> <<>>]

RequestsIdle ==
    /\ pc = [r \in Reqs |-> "idle"]
    /\ request = [r \in Reqs |-> NoRequest]
    /\ adapterCalls = [r \in Reqs |-> 0]
    /\ agentCalls = [r \in Reqs |-> <<>>]
    /\ outcome = [r \in Reqs |-> NoOutcome]
    /\ builderCalls = [r \in Reqs |-> 0]
    /\ errorLog = [r \in Reqs |-> <<>>]
    /\ response = [r \in Reqs |-> NoResponse]

AdapterIdle ==
    /\ messages = <<>>
    /\ callState = "ready"
    /\ ret = NoRet
    /\ retAgain = <<>>

DefaultEnv == [api_key |-> "secret", obsidian_vault_path |-> "/vault"]

TextIdle ==
    /\ textMsg = ChatMessage("user", StrContent(<<>>))
    /\ textRet = <<>>

NoExc == [type |-> "", message |-> "", path |-> "", method |-> ""]

HandlerIdle ==
    /\ handlerPc = "idle"
    /\ raisedExc = NoExc
    /\ handlerLog = <<>>
    /\ handlerResp = <<>>

HarnessIdle == AdapterIdle /\ TextIdle /\ HandlerIdle

InitAdapter ==
    /\ messages \in SeqsUpTo(Messages, MaxLen)
    /\ callState = "ready"
    /\ ret = NoRet
    /\ retAgain = <<>>
    /\ TextIdle
    /\ HandlerIdle
    /\ SettingsLoaded(DefaultEnv)
    /\ RequestsIdle

\* prompt, history = openai_messages_to_pydantic(messages)
CallAdapter ==
    /\ callState = "ready"
    /\ LET r == openai_messages_to_pydantic(messages)
       IN  /\ ret' = r
           /\ callState' = IF r.raised THEN "raised" ELSE "returned"
    /\ messages' = MessagesAfterCall(messages)
    /\ UNCHANGED <<retAgain, textVars, handlerVars, settingsVars, requestVars>>

\* a second call on the list the first call was given
CallAdapterAgain ==
    /\ callState # "ready"
    /\ retAgain = <<>>
    /\ retAgain' = <<openai_messages_to_pydantic(messages)>>
    /\ messages' = MessagesAfterCall(messages)
    /\ UNCHANGED <<callState, ret, textVars, handlerVars, settingsVars, requestVars>>

NextAdapter == CallAdapter \/ CallAdapterAgain

SpecAdapter == InitAdapter /\ [][NextAdapter]_vars

-----------------------------------------------------------------------------
(* app/core/exceptions.py *)

\* class PaddyError(Exception), VaultError(PaddyError),
\* NoteNotFoundError(VaultError), VaultPathError(VaultError)
DomainErrors == {"PaddyError", "VaultError", "NoteNotFoundError", "VaultPathError"}

\* the base class named in the class statement
Base(cls) ==
    CASE cls = "PaddyError"        -> "Exception"
      [] cls = "VaultError"        -> "PaddyError"
      [] cls = "NoteNotFoundError" -> "VaultError"
      [] cls = "VaultPathError"    -> "VaultError"

RECURSIVE isinstance(_, _)
\* isinstance(exc, cls) for an exception whose class is type
isinstance(type, cls) ==
    IF type = cls THEN TRUE
    ELSE IF type \notin DomainErrors THEN FALSE
    ELSE isinstance(Base(type), cls)

\* mutant: the not-found test is made on the common base class
StatusCodeByBase(type) ==
    IF isinstance(type, "VaultError") THEN 404
    ELSE IF isinstance(type, "VaultPathError") THEN 400
    ELSE 500

\* status_code of paddy_exception_handler
StatusCode(type) ==
    IF isinstance(type, "NoteNotFoundError") THEN 404
    ELSE IF isinstance(type, "VaultPathError") THEN 400
    ELSE 500

\* logger.error("vault.exception_raised", ...)
ErrorEntry(exc) ==
    [event         |-> "vault.exception_raised",
     error_type    |-> exc.type,
     error_message |-> exc.message,
     path          |-> exc.path,
     method        |-> exc.method,
     exc_info      |-> TRUE]

\* JSONResponse(status_code=..., content={"error": str(exc), "type": ...})
JSONResponse(exc) ==
    [status_code |-> StatusCode(exc.type),
     content     |-> [error |-> exc.message, type |-> exc.type]]

ExcMessages == {"", "Note not found: a.md", "Path escapes the vault"}

UrlPaths == {"/v1/chat/completions", "/health", "/notes/a.md"}

Methods == {"GET", "POST", "DELETE"}

\* a domain error has left a route and reached the registered handler
InitHandler ==
    /\ handlerPc = "raised"
    /\ raisedExc \in [type : DomainErrors, message : ExcMessages,
                       path : UrlPaths, method : Methods]
    /\ handlerLog = <<>>
    /\ handlerResp = <<>>
    /\ AdapterIdle
    /\ TextIdle
    /\ SettingsLoaded(DefaultEnv)
    /\ RequestsIdle

\* paddy_exception_handler, the logging statement
HandlerLogs ==
    /\ handlerPc = "raised"
    /\ handlerLog' = Append(handlerLog, ErrorEntry(raisedExc))
    /\ handlerPc' = "logged"
    /\ UNCHANGED <<raisedExc, handlerResp, adapterVars, textVars, settingsVars, requestVars>>

\* paddy_exception_handler, the status choice and the return
HandlerResponds ==
    /\ handlerPc = "logged"
    /\ handlerResp' = <<JSONResponse(raisedExc)>>
    /\ handlerPc' = "responded"
    /\ UNCHANGED <<raisedExc, handlerLog, adapterVars, textVars, settingsVars, requestVars>>

NextHandler == HandlerLogs \/ HandlerResponds

SpecHandler == InitHandler /\ [][NextHandler]_vars

-----------------------------------------------------------------------------
(* Harness of text_content: one read of the property on any message *)

PartTypes == {"text", "image_url"}

PartTexts == {None, Some(<<>>), Some(<<"a">>), Some(<<"b">>)}

Parts == { ContentPart(type, text) : type \in PartTypes, text \in PartTexts }

TextContents ==
    { StrContent(s) : s \in SeqsUpTo({"a", "b"}, 2) }
        \cup { ListContent(ps) : ps \in SeqsUpTo(Parts, MaxParts) }

InitText ==
    /\ textMsg \in { ChatMessage("user", c) : c \in TextContents }
    /\ textRet = <<>>
    /\ AdapterIdle
    /\ HandlerIdle
    /\ SettingsLoaded(DefaultEnv)
    /\ RequestsIdle

\* msg.text_content
ReadTextContent ==
    /\ textRet = <<>>
    /\ textRet' = <<text_content(textMsg)>>
    /\ UNCHANGED <<textMsg, adapterVars, handlerVars, settingsVars, requestVars>>

NextText == ReadTextContent

SpecText == InitText /\ [][NextText]_vars

-----------------------------------------------------------------------------
(* Request harness: what the clients send and how the agent runs end *)

ApiKeys == {"secret", "other"}

Envs == { [api_key |-> k, obsidian_vault_path |-> "/vault"] : k \in ApiKeys }

Credentials == {"secret", "SECRET", "other"}

Models == {"paddy", "gpt-4o"}

ReqContents ==
    { StrContent(<<"a">>),
      ListContent(<< ContentPart("text", Some(<<"a">>)),
                     ContentPart("image_url", None),
                     ContentPart("text", Some(<<"b">>)) >>) }

ReqMessages == { ChatMessage(r, c) : r \in Roles, c \in ReqContents }

\* the four optional tuning parameters: all omitted, or all given
Tunings ==
    { [temperature |-> NoneInt, max_tokens |-> NoneInt,
       top_p |-> NoneInt, frequency_penalty |-> NoneInt],
      [temperature |-> Some(1), max_tokens |-> Some(256),
       top_p |-> Some(1), frequency_penalty |-> Some(0)] }

Body(model, msgs, stream, t) ==
    [model |-> model, messages |-> msgs, stream |-> stream,
     temperature |-> t.temperature, max_tokens |-> t.max_tokens,
     top_p |-> t.top_p, frequency_penalty |-> t.frequency_penalty]

Exceptions ==
    { [type |-> "RuntimeError", message |-> "boom"],
      [type |-> "RuntimeError", message |-> "secret path /vault/x missing"],
      [type |-> "TimeoutError", message |-> "provider timed out"] }

\* token counts an agent run reports: pydantic_ai's usage fields are int | None
Counts == {NoneInt, Some(0), Some(7)}

Outputs == {"Mocked agent response", ""}

AgentResults ==
    { [data |-> d,
       usage |-> [request_tokens |-> a, response_tokens |-> b, total_tokens |-> c]] :
      d \in Outputs, a \in Counts, b \in Counts, c \in Counts }

\* a value of uuid.uuid4().hex: the version digit 4 at its place, c elsewhere
\* but for the last digit
UuidHex(c, last) ==
    [i \in 1..UuidHexLen |-> IF i = 13 THEN "4" ELSE IF i = UuidHexLen THEN last ELSE c]

\* values uuid4 may draw: two that differ in every digit, and one that
\* differs from the first in the last digit only
UuidHexes == {UuidHex("a", "a"), UuidHex("b", "b"), UuidHex("a", "b")}

Times == {1700000000, 1700000001}

\* what a single request may be, in full
Rich ==
    [auths      |-> {<<>>} \cup { <<k>> : k \in Credentials },
     bodies     |-> { Body(m, msgs, st, t) :
                        m \in Models, msgs \in SeqsUpTo(ReqMessages, MaxReqLen),
                        st \in BOOLEAN, t \in Tunings },
     exceptions |-> Exceptions,
     results    |-> {<<>>} \cup { <<x>> : x \in AgentResults },
     uuids      |-> UuidHexes,
     times      |-> Times]

\* what each of several concurrent requests may be: one case of each kind
Small ==
    [auths      |-> {<<>>, <<"secret">>, <<"other">>},
     bodies     |-> { Body(IF t.temperature.isNone THEN "paddy" ELSE "gpt-4o", msgs, st, t) :
                        msgs \in {<<>>, <<ChatMessage("user", StrContent(<<"a">>))>>},
                        st \in BOOLEAN, t \in Tunings },
     exceptions |-> Exceptions,
     results    |-> {<<>>} \cup
                    { <<x>> : x \in { y \in AgentResults :
                          /\ y.data # ""
                          /\ y.usage = [request_tokens |-> Some(7),
                                        response_tokens |-> Some(7),
                                        total_tokens |-> Some(7)] } },
     uuids      |-> {UuidHex("a", "a"), UuidHex("b", "b")},
     times      |-> {1700000000}]

\* one request, any input
Init ==
    /\ HarnessIdle
    /\ \E e \in Envs : SettingsLoaded(e)
    /\ RequestsIdle

Next ==
    \E r \in {1} :
        \/ Receive(r, Rich)
        \/ Authenticate(r)
        \/ ChatCompletions(r)
        \/ AgentRaises(r, Rich)
        \/ AgentReturns(r, Rich)

Spec == Init /\ [][Next]_vars

\* several requests interleaved at their steps
InitConc ==
    /\ HarnessIdle
    /\ SettingsLoaded(DefaultEnv)
    /\ RequestsIdle

NextConc ==
    \E r \in Reqs :
        \/ Receive(r, Small)
        \/ Authenticate(r)
        \/ ChatCompletions(r)
        \/ AgentRaises(r, Small)
        \/ AgentReturns(r, Small)

SpecConc == InitConc /\ [][NextConc]_vars

\* the same requests under the scheduling of the event loop: the code of a
\* received request runs on until it returns or awaits the agent; when the
\* agent run ends, if ever, is not the handler's to decide
Fairness ==
    \A r \in Reqs : WF_vars(Authenticate(r)) /\ WF_vars(ChatCompletions(r))

\* the inputs of the requests followed to their end: a good and a bad key,
\* an empty list, a plain request and a streaming one, each way the agent
\* run can end
Few ==
    [auths      |-> {<<"secret">>, <<"other">>},
     bodies     |-> { b \in Small.bodies :
                        /\ b.model = "paddy"
                        /\ b.stream => b.messages # <<>> },
     exceptions |-> Exceptions,
     results    |-> Small.results,
     uuids      |-> {UuidHex("a", "a")},
     times      |-> {1700000000}]

NextLive ==
    \E r \in Reqs :
        \/ Receive(r, Few)
        \/ Authenticate(r)
        \/ ChatCompletions(r)
        \/ AgentRaises(r, Few)
        \/ AgentReturns(r, Few)

SpecLive == InitConc /\ [][NextLive]_vars /\ Fairness

\* get_settings exercised by the same requests, from a loaded cache and from
\* a cache that has just been cleared
InitSettings ==
    /\ HarnessIdle
    /\ SettingsLoaded(DefaultEnv) \/ SettingsCleared(DefaultEnv)
    /\ RequestsIdle

NextSettings ==
    \E r \in Reqs :
        \/ Receive(r, Small)
        \/ Authenticate(r)
        \/ ChatCompletions(r)
        \/ AgentRaises(r, Small)
        \/ AgentReturns(r, Small)

SpecSettings == InitSettings /\ [][NextSettings]_vars

-----------------------------------------------------------------------------
(* Claims about the adapter, stated over the harness *)

HasUser(msgs) == \E i \in DOMAIN msgs : msgs[i].role = "user"

\* position of the last user-role message
LastUserIdx(msgs) ==
    CHOOSE i \in DOMAIN msgs :
        /\ msgs[i].role = "user"
        /\ \A j \in DOMAIN msgs : msgs[j].role = "user" => j <= i

SystemTexts(msgs) ==
    { text_content(msgs[i]) : i \in { j \in DOMAIN msgs : msgs[j].role = "system" } }

OtherTexts(msgs) ==
    { text_content(msgs[i]) : i \in { j \in DOMAIN msgs : msgs[j].role # "system" } }

\* the turn a retained message stands for
TurnOf(msg) ==
    IF msg.role = "user" THEN ModelRequest(text_content(msg))
    ELSE ModelResponse(text_content(msg))

RECURSIVE TurnsFrom(_, _, _)
\* the turns of the messages at positions i.., skipping position skip and
\* every system message, in the order of the list
TurnsFrom(msgs, i, skip) ==
    IF i > Len(msgs) THEN <<>>
    ELSE IF i = skip \/ msgs[i].role = "system"
    THEN TurnsFrom(msgs, i + 1, skip)
    ELSE <<TurnOf(msgs[i])>> \o TurnsFrom(msgs, i + 1, skip)

\* C1: for a non-empty list with a user message the call returns, the prompt
\* is the normalized text of the LAST user message, no retained message is a
\* system message, and where the system texts differ from all other texts
\* no history record carries one of them.
C1_PromptIsLastUserNoSystem ==
    (callState # "ready" /\ messages # <<>> /\ HasUser(messages)) =>
        /\ ~ret.raised
        /\ ret.user_prompt = text_content(messages[LastUserIdx(messages)])
        /\ \A k \in DOMAIN ret.prior_messages :
               messages[ret.prior_messages[k]].role # "system"
        /\ (SystemTexts(messages) \cap OtherTexts(messages) = {}) =>
               \A k \in DOMAIN ret.history :
                   ret.history[k].content \notin SystemTexts(messages)

\* C1 witness: a returned call on a list with a system message and two user
\* messages of different text, the last user message not the first one
C1_Witness ==
    /\ callState = "returned"
    /\ \E i, j, s \in DOMAIN messages :
           /\ i < j
           /\ messages[i].role = "user" /\ messages[j].role = "user"
           /\ text_content(messages[i]) # text_content(messages[j])
           /\ messages[s].role = "system"
           /\ text_content(messages[s]) \notin OtherTexts(messages)
    /\ ret.history # <<>>

C3_HistoryHoldsPriorTurnsOnly ==
    callState = "returned" =>
        \A k \in DOMAIN ret.prior_messages :
            ret.prior_messages[k] < LastUserIdx(messages)

\* C4: the call raises exactly when the list is empty ("must not be empty")
\* or holds no user message ("at least one user message"); a raised call
\* returns neither prompt nor history, and no other input raises.
C4_RaisesIffEmptyOrNoUser ==
    callState # "ready" =>
        /\ (callState = "raised") = ret.raised
        /\ ret.raised = (messages = <<>> \/ ~HasUser(messages))
        /\ messages = <<>> => ret.error = ErrEmpty
        /\ (messages # <<>> /\ ~HasUser(messages)) => ret.error = ErrNoUser
        /\ ret.raised => (ret.user_prompt = <<>> /\ ret.history = <<>>)
        /\ ~ret.raised => ret.error = ""

\* C4 witness: the call raised on a list of system and assistant messages
C4_Witness ==
    /\ callState = "raised"
    /\ ret.error = ErrNoUser
    /\ \E i, j \in DOMAIN messages :
           messages[i].role = "system" /\ messages[j].role = "assistant"

-----------------------------------------------------------------------------
(* Claims about one request *)

\* the request carries the configured API key as its bearer credential
CredentialOk(r) ==
    /\ request[r].authorization # <<>>
    /\ request[r].authorization[1] = env.api_key

\* the adapter accepts the request's messages
Accepted(r) ==
    /\ request[r].body.messages # <<>>
    /\ HasUser(request[r].body.messages)

\* the request has left the authentication step
PastAuth(r) == pc[r] \in {"authenticated", "awaiting", "done"}

\* the request has left the handler's checks before the agent
PastChecks(r) == pc[r] \in {"awaiting", "done"}

\* a count of the response equals the count the agent reported
SameCount(n, reported) == ~reported.isNone /\ n = reported.v

\* a count of the response equals the reported count, 0 standing for null
SameCountOrZero(n, reported) == n = (IF reported.isNone THEN 0 ELSE reported.v)

\* what C5 says of a finished request but for its token counts
C5_Shape(r) ==
    /\ CredentialOk(r) /\ ~request[r].body.stream /\ Accepted(r)
    /\ response[r].status = 200
    /\ Len(response[r].body) = 1
    /\ Len(response[r].body[1].choices) = 1
    /\ response[r].body[1].choices[1].message.content = outcome[r].result[1].data
    /\ response[r].body[1].model = request[r].body.model

\* C5 (as claimed): an authenticated non-streaming request with accepted
\* messages whose agent run gives a non-null result is answered 200 with one
\* choice holding the agent's output, the request's model, and the three
\* token counts equal to the counts the agent reported.
C5_SuccessEchoesAgentCounts ==
    \A r \in Reqs :
        (pc[r] = "done" /\ outcome[r].kind = "result") =>
            /\ C5_Shape(r)
            /\ LET u == response[r].body[1].usage
                   a == outcome[r].result[1].usage
               IN  /\ SameCount(u.prompt_tokens, a.request_tokens)
                   /\ SameCount(u.completion_tokens, a.response_tokens)
                   /\ SameCount(u.total_tokens, a.total_tokens)

\* C5 (amended): as above, each token count being the agent-reported count,
\* or 0 where the agent reports that count as null.
C5_SuccessEchoesAgentCountsOrZero ==
    \A r \in Reqs :
        /\ (pc[r] = "done" /\ outcome[r].kind = "result") =>
               /\ C5_Shape(r)
               /\ LET u == response[r].body[1].usage
                      a == outcome[r].result[1].usage
                  IN  /\ SameCountOrZero(u.prompt_tokens, a.request_tokens)
                      /\ SameCountOrZero(u.completion_tokens, a.response_tokens)
                      /\ SameCountOrZero(u.total_tokens, a.total_tokens)
        /\ (PastChecks(r) /\ CredentialOk(r) /\ ~request[r].body.stream /\ Accepted(r)) =>
               Len(agentCalls[r]) = 1

\* C5 witness: a 200 for a model other than the configured default, with a
\* null prompt count beside a total of 7
C5_Witness ==
    \E r \in Reqs :
        /\ pc[r] = "done" /\ response[r].status = 200
        /\ request[r].body.model = "gpt-4o"
        /\ outcome[r].result[1].data = "Mocked agent response"
        /\ outcome[r].result[1].usage.request_tokens.isNone
        /\ response[r].body[1].usage.total_tokens = 7

\* C6: a request passes authentication iff its bearer credential equals the
\* configured API key; another credential ends it with 401, a missing header
\* with 403, and then adapter, agent and response builder were never called.
C6_AuthByExactKey ==
    \A r \in Reqs :
        pc[r] \notin {"idle", "received"} =>
            LET auth == request[r].authorization
            IN  /\ CredentialOk(r) = (response[r].status \notin {401, 403})
                /\ auth = <<>> => (pc[r] = "done" /\ response[r].status = 403)
                /\ (auth # <<>> /\ auth[1] # env.api_key) =>
                       (pc[r] = "done" /\ response[r].status = 401)
                /\ ~CredentialOk(r) =>
                       /\ adapterCalls[r] = 0
                       /\ agentCalls[r] = <<>>
                       /\ builderCalls[r] = 0
                       /\ outcome[r] = NoOutcome

\* C6 witness: a credential that differs from the key only in case got 401
\* on a request that would otherwise have been served
C6_Witness ==
    \E r \in Reqs :
        /\ pc[r] = "done" /\ response[r].status = 401
        /\ request[r].authorization = <<"SECRET">> /\ env.api_key = "secret"
        /\ ~request[r].body.stream /\ Accepted(r)

\* C7: an authenticated request with stream = true never reaches the agent
\* and ends with 400 and the streaming-not-supported detail, whatever its
\* messages are.
C7_StreamingRejected ==
    \A r \in Reqs :
        (PastAuth(r) /\ CredentialOk(r) /\ request[r].body.stream) =>
            /\ pc[r] \in {"authenticated", "done"}
            /\ agentCalls[r] = <<>>
            /\ pc[r] = "done" =>
                   /\ response[r].status = 400
                   /\ response[r].detail = StreamingDetail

\* C7 witness: a streaming request with an empty message list got the
\* streaming 400
C7_Witness ==
    \E r \in Reqs :
        /\ pc[r] = "done" /\ CredentialOk(r)
        /\ request[r].body.stream /\ request[r].body.messages = <<>>
        /\ response[r].status = 400

\* C8: an authenticated non-streaming request whose messages the adapter
\* rejects never reaches the agent and ends with 400, the detail being the
\* adapter's error message.
C8_AdapterErrorIs400 ==
    \A r \in Reqs :
        (PastAuth(r) /\ CredentialOk(r) /\ ~request[r].body.stream /\ ~Accepted(r)) =>
            /\ pc[r] \in {"authenticated", "done"}
            /\ agentCalls[r] = <<>>
            /\ pc[r] = "done" =>
                   /\ response[r].status = 400
                   /\ response[r].detail =
                          (IF request[r].body.messages = <<>> THEN ErrEmpty ELSE ErrNoUser)

\* C8 witness: a request of system and assistant messages only got the
\* no-user-message 400
C8_Witness ==
    \E r \in Reqs :
        /\ pc[r] = "done" /\ response[r].status = 400
        /\ response[r].detail = ErrNoUser
        /\ Len(request[r].body.messages) = 2

\* C9: an agent run that raised, or that ended with a null result, ends the
\* request with 500; the response builder was not called and no 200 body
\* was produced.
C9_AgentFailureIs500 ==
    \A r \in Reqs :
        outcome[r].kind \in {"raised", "null"} =>
            /\ pc[r] = "done"
            /\ response[r].status = 500
            /\ response[r].body = <<>>
            /\ builderCalls[r] = 0

\* C9 witness: a request whose agent run raised a TimeoutError is done
C9_Witness ==
    \E r \in Reqs :
        /\ pc[r] = "done"
        /\ outcome[r].kind = "raised"
        /\ outcome[r].exc[1].type = "TimeoutError"

\* C10: two requests whose agent runs raised receive the same status and the
\* same detail, whatever the two exceptions are.
C10_FailureDetailIndependentOfException ==
    \A r1, r2 \in Reqs :
        (outcome[r1].kind = "raised" /\ outcome[r2].kind = "raised") =>
            /\ response[r1].status = response[r2].status
            /\ response[r1].detail = response[r2].detail

\* C10 witness: two finished requests whose agent runs raised exceptions of
\* different type and message
C10_Witness ==
    \E r1, r2 \in Reqs :
        /\ pc[r1] = "done" /\ pc[r2] = "done"
        /\ outcome[r1].kind = "raised" /\ outcome[r2].kind = "raised"
        /\ outcome[r1].exc[1].type # outcome[r2].exc[1].type
        /\ outcome[r1].exc[1].message # outcome[r2].exc[1].message

-----------------------------------------------------------------------------
(* Claims about the response builder *)

\* the arguments chat_completions handed to build_chat_response for r
BuilderArgs(r) ==
    [output          |-> outcome[r].result[1].data,
     model           |-> request[r].body.model,
     request_tokens  |-> outcome[r].result[1].usage.request_tokens,
     response_tokens |-> outcome[r].result[1].usage.response_tokens,
     total_tokens    |-> outcome[r].result[1].usage.total_tokens]

\* the counter answered for an argument: the argument when given, 0 when null
GivenOrZero(arg) == IF arg.isNone THEN 0 ELSE arg.v

\* C11: for every output, model and combination of given and null counts
\* the built response has object "chat.completion", one choice of index 0,
\* role assistant, the output as content and finish_reason "stop", the given
\* model, and each usage counter equal to its own argument, or 0 when that
\* argument is null, whatever the other two are.
C11_BuiltResponseShape ==
    \A r \in Reqs :
        builderCalls[r] > 0 =>
            LET b == response[r].body[1]
                a == BuilderArgs(r)
            IN  /\ b.object = "chat.completion"
                /\ Len(b.choices) = 1
                /\ b.choices[1].index = 0
                /\ b.choices[1].message.role = "assistant"
                /\ b.choices[1].message.content = a.output
                /\ b.choices[1].finish_reason = "stop"
                /\ b.model = a.model
                /\ b.usage.prompt_tokens = GivenOrZero(a.request_tokens)
                /\ b.usage.completion_tokens = GivenOrZero(a.response_tokens)
                /\ b.usage.total_tokens = GivenOrZero(a.total_tokens)

\* C11 witness: a response built from counts 7 and 7 with a null total,
\* whose total is 0 and not 14
C11_Witness ==
    \E r \in Reqs :
        /\ builderCalls[r] = 1
        /\ BuilderArgs(r).request_tokens = Some(7)
        /\ BuilderArgs(r).response_tokens = Some(7)
        /\ BuilderArgs(r).total_tokens.isNone
        /\ response[r].body[1].usage.total_tokens = 0
        /\ response[r].body[1].usage.prompt_tokens = 7

\* C12 (as claimed): every built identifier starts with "chatcmpl-" followed
\* by a non-empty token, and no two calls, also of different concurrent
\* requests, return the same identifier.
C12_IdentifiersNeverRepeat ==
    /\ \A r \in Reqs :
           builderCalls[r] > 0 =>
               /\ response[r].body[1].id.prefix = "chatcmpl-"
               /\ response[r].body[1].id.token # <<>>
    /\ \A r1, r2 \in Reqs :
           (r1 # r2 /\ builderCalls[r1] > 0 /\ builderCalls[r2] > 0) =>
               response[r1].body[1].id # response[r2].body[1].id

\* C12 (amended): every built identifier starts with "chatcmpl-" followed
\* by a non-empty token, the first 29 hex digits of the uuid drawn by the
\* call; nothing more is guaranteed about two calls' identifiers.
C12_IdentifierPrefixAndToken ==
    \A r \in Reqs :
        builderCalls[r] > 0 =>
            /\ response[r].body[1].id.prefix = "chatcmpl-"
            /\ response[r].body[1].id.token # <<>>
            /\ Len(response[r].body[1].id.token) = 29
            /\ \E hex \in UuidHexes :
                   \A i \in 1..29 : response[r].body[1].id.token[i] = hex[i]

\* C12 witness: two concurrent requests answered with different identifiers
C12_Witness ==
    \E r1, r2 \in Reqs :
        /\ builderCalls[r1] > 0 /\ builderCalls[r2] > 0
        /\ response[r1].body[1].id.token # response[r2].body[1].id.token
        /\ response[r1].body[1].id.prefix = response[r2].body[1].id.prefix

-----------------------------------------------------------------------------
(* Claims about several requests *)

\* C13: two authenticated non-streaming requests with the same messages
\* cause identical agent invocations, whatever their model, temperature,
\* max_tokens, top_p and frequency_penalty are; the dependency bundle holds
\* the configured vault path.
C13_AgentArgsFromMessagesOnly ==
    \A r1, r2 \in Reqs :
        (/\ agentCalls[r1] # <<>> /\ agentCalls[r2] # <<>>
         /\ request[r1].body.messages = request[r2].body.messages) =>
            /\ agentCalls[r1] = agentCalls[r2]
            /\ agentCalls[r1][1].deps = [vault_path |-> env.obsidian_vault_path]

\* C13 witness: two requests with the same messages but different model and
\* tuning parameters have both invoked the agent
C13_Witness ==
    \E r1, r2 \in Reqs :
        /\ agentCalls[r1] # <<>> /\ agentCalls[r2] # <<>>
        /\ request[r1].body.messages = request[r2].body.messages
        /\ request[r1].body.model # request[r2].body.model
        /\ request[r1].body.temperature # request[r2].body.temperature
        /\ request[r1].body.max_tokens # request[r2].body.max_tokens
        /\ request[r1].body.top_p # request[r2].body.top_p
        /\ request[r1].body.frequency_penalty # request[r2].body.frequency_penalty

-----------------------------------------------------------------------------
(* Claims about text_content *)

\* the text a part holds: nothing when the field is None
TextOf(part) == IF part.text.isNone THEN <<>> ELSE part.text.v

\* the parts of type "text", in list order
TextParts(parts) == SelectSeq(parts, LAMBDA p : p.type = "text")

RECURSIVE Concatenation(_)
\* the texts of the parts laid end to end, without separator
Concatenation(parts) ==
    IF parts = <<>> THEN <<>>
    ELSE Concatenation(SubSeq(parts, 1, Len(parts) - 1)) \o TextOf(parts[Len(parts)])

\* C14: text_content returns string content unchanged, and for list content
\* the concatenation, in order and without separator, of the text of exactly
\* the parts of type "text"; parts of any other type contribute nothing.
C14_TextContentIsTextPartsJoined ==
    textRet # <<>> =>
        IF textMsg.content.isStr
        THEN textRet[1] = textMsg.content.str
        ELSE textRet[1] = Concatenation(TextParts(textMsg.content.parts))

\* C14 witness: a list with two text parts around a part of another type that
\* itself carries text has been read
C14_Witness ==
    /\ textRet # <<>>
    /\ ~textMsg.content.isStr
    /\ Len(textMsg.content.parts) = 3
    /\ textMsg.content.parts[1] = ContentPart("text", Some(<<"a">>))
    /\ textMsg.content.parts[2] = ContentPart("image_url", Some(<<"b">>))
    /\ textMsg.content.parts[3] = ContentPart("text", Some(<<"b">>))
    /\ textRet[1] = <<"a", "b">>
-----------------------------------------------------------------------------
(* Claims about the exception handler *)

\* the status the claim gives each kind of domain error
StatusByKind(type) ==
    CASE type = "NoteNotFoundError" -> 404
      [] type = "VaultPathError"    -> 400
      [] OTHER                      -> 500

\* C15: the handler answers NoteNotFoundError with 404, VaultPathError with
\* 400 and every other domain error with 500, and in every case exactly one
\* error entry holding the error type, the message, the request path and the
\* method has been logged before the response is returned.
C15_StatusByKindAfterOneLogEntry ==
    /\ Len(handlerLog) <= 1
    /\ handlerResp # <<>> =>
           /\ handlerResp[1].status_code = StatusByKind(raisedExc.type)
           /\ Len(handlerLog) = 1
           /\ handlerLog[1].error_type = raisedExc.type
           /\ handlerLog[1].error_message = raisedExc.message
           /\ handlerLog[1].path = raisedExc.path
           /\ handlerLog[1].method = raisedExc.method

\* C15 witness: a NoteNotFoundError has been answered
C15_Witness ==
    /\ handlerPc = "responded"
    /\ raisedExc.type = "NoteNotFoundError"
    /\ handlerResp # <<>>
    /\ handlerResp[1].status_code = 404
    /\ Len(handlerLog) = 1

-----------------------------------------------------------------------------
(* Claims about the settings cache *)

\* C16: with no cache clear in between, the settings are constructed at most
\* once and every get_settings call, first calls of interleaved requests
\* included, returns the same instance; a request never changes the cached
\* instance or the environment it was read from.
C16_SettingsLoadedOnceAndReused ==
    [][ /\ settingsLoads' <= 1
        /\ \A c1, c2 \in Callers :
               \A i \in 1..Len(settingsSeen'[c1]), j \in 1..Len(settingsSeen'[c2]) :
                   settingsSeen'[c1][i] = settingsSeen'[c2][j]
        /\ settingsCache # <<>> => settingsCache' = settingsCache
        /\ env' = env ]_vars

\* C16 witness: after a cache clear two requests are in flight together, and
\* each has called get_settings in verify_api_key and in chat_completions
C16_Witness ==
    /\ settingsSeen[AtImport] = <<>>
    /\ \A r \in {1, 2} : pc[r] = "awaiting" /\ Len(settingsSeen[r]) = 2
    /\ settingsLoads = 1

-----------------------------------------------------------------------------
(* Claims about interleaved requests *)

\* a response without its identifier and timestamp
Comparable(resp) ==
    IF resp.body = <<>> THEN [status |-> resp.status, detail |-> resp.detail, body |-> <<>>]
    ELSE [status |-> resp.status, detail |-> resp.detail,
          body |-> << [object  |-> resp.body[1].object,
                       model   |-> resp.body[1].model,
                       choices |-> resp.body[1].choices,
                       usage   |-> resp.body[1].usage] >>]

\* the response (without identifier and timestamp) of a request that runs
\* alone with the given credential, body and agent outcome
ResponseAlone(auth, body, out, e) ==
    IF auth = <<>> THEN HTTPException(403, NotAuthenticatedDetail)
    ELSE IF auth[1] # e.api_key THEN HTTPException(401, InvalidKeyDetail)
    ELSE IF body.stream THEN HTTPException(400, StreamingDetail)
    ELSE IF body.messages = <<>> THEN HTTPException(400, ErrEmpty)
    ELSE IF ~HasUser(body.messages) THEN HTTPException(400, ErrNoUser)
    ELSE IF out.kind = "raised" THEN HTTPException(500, AgentFailedDetail)
    ELSE IF out.kind = "null" THEN HTTPException(500, NoResultDetail)
    ELSE [status |-> 200, detail |-> "",
          body |-> << [object  |-> "chat.completion",
                       model   |-> body.model,
                       choices |-> << [index |-> 0,
                                       message |-> [role |-> "assistant",
                                                    content |-> out.result[1].data],
                                       finish_reason |-> "stop"] >>,
                       usage   |-> [prompt_tokens     |-> GivenOrZero(out.result[1].usage.request_tokens),
                                    completion_tokens |-> GivenOrZero(out.result[1].usage.response_tokens),
                                    total_tokens      |-> GivenOrZero(out.result[1].usage.total_tokens)]] >>]

\* everything the model keeps for one request
PerRequest(q) ==
    <<pc[q], request[q], adapterCalls[q], agentCalls[q], outcome[q],
      builderCalls[q], errorLog[q], response[q], settingsSeen[q]>>

\* C17: in every interleaving of requests suspended at their agent run, a
\* finished request's status and body, identifier and timestamp apart, are
\* those of the same request run alone with its credential, body and agent
\* outcome; a step of one request changes nothing kept for another request
\* and nothing shared, so no request reads what another wrote.
C17_RequestsIndependent ==
    [][ /\ \A r \in Reqs :
               pc'[r] = "done" =>
                   Comparable(response'[r]) =
                       ResponseAlone(request'[r].authorization, request'[r].body,
                                     outcome'[r], env')
        /\ <<env, settingsCache, settingsLoads>>' = <<env, settingsCache, settingsLoads>>
        /\ \A r \in Reqs :
               pc'[r] # pc[r] =>
                   \A q \in Reqs \ {r} : PerRequest(q)' = PerRequest(q) ]_vars

\* C17 witness: request 1 has been answered 200 while request 2, sent with
\* another model name, is suspended at its agent run
C17_Witness ==
    /\ pc[1] = "done" /\ response[1].status = 200
    /\ pc[2] = "awaiting"
    /\ request[2].body.model # request[1].body.model

-----------------------------------------------------------------------------
(* Claims about the life of one request *)

\* the steps a request may take, in the order of the handler
PcOrder ==
    { <<"idle", "received">>,
      <<"received", "authenticated">>, <<"received", "done">>,
      <<"authenticated", "awaiting">>, <<"authenticated", "done">>,
      <<"awaiting", "done">> }

\* the terminal statuses
TerminalStatuses == {200, 400, 401, 403, 500}

\* C18: a request goes through authentication, streaming rejection, prompt
\* extraction, agent run and response building in that order and ends in
\* exactly one terminal state, decided by the first failing check: a bad
\* credential gives 401/403 whatever the body, an authenticated streaming
\* request gives the streaming 400 whatever its messages, and a response is
\* built only after the agent was invoked and returned a non-null result.
C18_ChecksInFixedOrder ==
    [][ \A r \in Reqs :
          /\ pc'[r] # pc[r] => <<pc[r], pc'[r]>> \in PcOrder
          /\ pc[r] = "done" => pc'[r] = "done" /\ response'[r] = response[r]
          /\ (pc'[r] = "done") = (response'[r].status \in TerminalStatuses)
          /\ pc'[r] = "done" =>
                 /\ ~CredentialOk(r)' =>
                        /\ response'[r].status \in {401, 403}
                        /\ adapterCalls'[r] = 0
                        /\ agentCalls'[r] = <<>>
                 /\ (CredentialOk(r)' /\ request'[r].body.stream) =>
                        /\ response'[r] = HTTPException(400, StreamingDetail)
                        /\ adapterCalls'[r] = 0
                        /\ agentCalls'[r] = <<>>
                 /\ (CredentialOk(r)' /\ ~request'[r].body.stream /\ ~Accepted(r)') =>
                        /\ response'[r].status = 400
                        /\ adapterCalls'[r] = 1
                        /\ agentCalls'[r] = <<>>
          /\ builderCalls'[r] <= 1
          /\ builderCalls'[r] = 1 =>
                 /\ Len(agentCalls'[r]) = 1
                 /\ outcome'[r].kind = "result"
                 /\ pc'[r] = "done" /\ response'[r].status = 200
          /\ response'[r].status = 200 => builderCalls'[r] = 1 ]_vars

\* C18 witness: an authenticated request asking for streaming with an empty
\* message list has been answered with the streaming 400
C18_Witness ==
    \E r \in Reqs :
        /\ pc[r] = "done"
        /\ CredentialOk(r)
        /\ request[r].body.stream
        /\ request[r].body.messages = <<>>
        /\ response[r] = HTTPException(400, StreamingDetail)

\* the agent run of the request has ended without a result
AgentFailed(r) == outcome[r].kind \in {"raised", "null"}

\* C19: the agent is invoked at most once per request, and once its run has
\* raised or given a null result the request is finished and the agent is
\* never invoked for it again.
C19_NoRetries ==
    [][ \A r \in Reqs :
          /\ Len(agentCalls'[r]) <= 1
          /\ AgentFailed(r)' => pc'[r] = "done" /\ response'[r].status = 500
          /\ AgentFailed(r) => agentCalls'[r] = agentCalls[r] /\ outcome'[r] = outcome[r] ]_vars

\* C19 witness: one request ended by an agent exception and one by a null
\* result, each after a single invocation
C19_Witness ==
    /\ pc[1] = "done" /\ outcome[1].kind = "raised" /\ Len(agentCalls[1]) = 1
    /\ pc[2] = "done" /\ outcome[2].kind = "null" /\ Len(agentCalls[2]) = 1

-----------------------------------------------------------------------------
(* Claims about termination *)

\* the request has been answered with a terminal status
Terminal(r) == pc[r] = "done" /\ response[r].status \in TerminalStatuses

\* the request is suspended at its agent invocation
Suspended(r) == pc[r] = "awaiting"

\* the agent invocation of the request has returned or raised
AgentEnded(r) == outcome[r].kind # "none"

\* one of the checks before the agent invocation fails for the request
FailsBeforeAgent(r) ==
    ~CredentialOk(r) \/ request[r].body.stream \/ ~Accepted(r)

\* C20: a received request reaches the agent invocation or a terminal state
\* without waiting for anything; one failing an earlier check always ends in
\* a terminal state; if every agent invocation eventually returns or raises,
\* every received request ends in a terminal state; and a request that
\* invoked the agent is answered only once the invocation has ended, so that
\* one whose invocation never ends stays suspended for ever (no timeout).
C20_TerminatesIffAgentEnds ==
    \A r \in Reqs :
        /\ (pc[r] = "received") ~> (Suspended(r) \/ Terminal(r))
        /\ (pc[r] = "received" /\ FailsBeforeAgent(r)) ~> (Terminal(r) /\ agentCalls[r] = <<>>)
        /\ (Suspended(r) ~> AgentEnded(r)) => ((pc[r] = "received") ~> Terminal(r))
        /\ [](Suspended(r) => ~AgentEnded(r))
        /\ [](Terminal(r) /\ agentCalls[r] # <<>> => AgentEnded(r))
        /\ []([](~AgentEnded(r)) /\ Suspended(r) => [](Suspended(r) /\ ~Terminal(r)))

\* C20 witness: request 1 is suspended at its agent invocation while request
\* 2, which failed the message check, has been answered without one
C20_Witness ==
    /\ Suspended(1) /\ ~AgentEnded(1)
    /\ Terminal(2) /\ response[2].status = 400 /\ agentCalls[2] = <<>>

-----------------------------------------------------------------------------
(* Further claims about the adapter *)

\* the last user message of the list normalizes to the empty string
LastUserIsEmpty(msgs) ==
    HasUser(msgs) /\ text_content(msgs[LastUserIdx(msgs)]) = <<>>

\* the positions of the user messages before the last one, in list order
EarlierUsers(msgs) ==
    SelectSeq([k \in 1..Len(msgs) |-> k],
              LAMBDA k : msgs[k].role = "user" /\ k < LastUserIdx(msgs))

\* the request records of a history, in order
Requests(history) == SelectSeq(history, LAMBDA h : h.kind = "request")

\* C21: when the last user message normalizes to the empty string the call
\* returns with the empty string as prompt (it does not raise "no user
\* message" and does not take an earlier user message as the prompt), and
\* the request records of the history are the earlier user messages, all of
\* them and in their order.
C21_EmptyLastUserIsThePrompt ==
    (callState # "ready" /\ LastUserIsEmpty(messages)) =>
        /\ callState = "returned"
        /\ ~ret.raised
        /\ ret.user_prompt = <<>>
        /\ Len(Requests(ret.history)) = Len(EarlierUsers(messages))
        /\ \A k \in DOMAIN EarlierUsers(messages) :
               Requests(ret.history)[k] =
                   ModelRequest(text_content(messages[EarlierUsers(messages)[k]]))

\* C21 witness: a returned call whose last user message is empty, once as
\* an empty string after a non-empty user message
C21_Witness ==
    /\ callState = "returned"
    /\ LastUserIsEmpty(messages)
    /\ messages[LastUserIdx(messages)].content.isStr
    /\ Len(EarlierUsers(messages)) >= 1
    /\ text_content(messages[EarlierUsers(messages)[1]]) # <<>>
    /\ ret.user_prompt = <<>>

=============================================================================
